---- MODULE Spec2Model ----
(***************************************************************************)
(* Model of bitset.c: a fixed-capacity bit array packed into 64-bit words, *)
(* with bounds-checked set/clear/get, a stateful cursor (BitSetIterator)   *)
(* and a stateless scan (bitset_next_set_bit).                             *)
(*                                                                         *)
(* A uint64_t word is the set of its set bit positions (a subset of        *)
(* 0..63): `|` is union, `&` is intersection, `<< 1` moves every position  *)
(* up by one and drops position 64.  A pointer into bs->chunks is the      *)
(* integer word position it points at; positions outside [0, nchunks) are  *)
(* outside the allocated storage.                                          *)
(***************************************************************************)
EXTENDS Integers, Sequences, FiniteSets, TLC

(* ---------------------------- bounds ----------------------------------- *)

\* Capacities 0..MaxSmallCap are modelled besides the word-boundary ones.
MaxSmallCap == 2

\* Calls of bitset_iter_next recorded on one cursor.
MaxIterCalls == 8

\* Words below INT_MAX that the capacities of the large bitsets span, and
\* that are represented of their storage.
TopSpan == 2

(* ------------------------- program constants --------------------------- *)

\* Width of one chunk (uint64_t) in bits.
WORD == 64

\* Largest value of the int that holds capacity and the running index.
INT_MAX == 2147483647

\* The literal 1ull, and 1ull << n for a shift count in range.
Bit(n) == {n}

\* x << 1 on a uint64_t: the top bit is pushed off the end of the register.
Shl1(w) == {b + 1 : b \in {c \in w : c + 1 < WORD}}

\* C integer division and remainder (truncation toward zero).
CDiv(a, b) == IF a >= 0 THEN a \div b ELSE -((-a) \div b)
CMod(a, b) == a - b * CDiv(a, b)

\* index >> 6 and index & 0x3F on a non-negative int.
Shr6(index) == index \div WORD
And3F(index) == index % WORD

\* The values `1ull << (index % 64)` can take.  For index >= 0 the count is
\* in 0..63.  For index < 0 the count is negative, which C leaves undefined:
\* the hardware shift uses the count modulo 64, other builds yield 0.
ShiftMasks(index) ==
    LET r == CMod(index, WORD)
    IN  IF r >= 0 THEN {Bit(r)} ELSE {Bit(r + WORD), {}}

\* Contents a word outside the allocated storage can hold when it is read:
\* zero, non-zero with bit 0 set, non-zero with bit 0 clear.
GarbageWords == {{}, Bit(0), Bit(WORD - 1)}

(* ------------------------------ inputs --------------------------------- *)

Capacities ==
    (0 .. MaxSmallCap) \cup {WORD - 1, WORD, WORD + 1, 2 * WORD, 2 * WORD + 1}

\* Index arguments tried on a bitset of capacity cap: the low indices, the
\* word boundaries, the top of the range, and out-of-range values on both
\* sides.
IndexInputs(cap) ==
    {-WORD, -1} \cup (0 .. MaxSmallCap - 1) \cup {WORD - 1, WORD, cap - 1, cap}

\* start_index arguments of bitset_next_set_bit (never negative).
StartInputs(cap) == {i \in IndexInputs(cap) : i >= 0} \cup {cap + 1, cap + WORD}

(* ------------------------------ state ---------------------------------- *)

VARIABLES
    capacity,   \* BitSet.capacity
    nchunks,    \* BitSet.nchunks
    chunks,     \* BitSet.chunks: word position -> word
    bsi,        \* the BitSetIterator, or NoCursor before bitset_iter_begin
    hist,       \* results of bitset_iter_next on bsi since bitset_iter_begin
    last,       \* the call that ended last: name, argument, outcome
    status      \* "running", or "exited" after exit(1); for the large
                \* bitsets also "skip_loop" (inside the skip loop of
                \* bitset_iter_next) and "undefined" (after a signed overflow)

vars == <<capacity, nchunks, chunks, bsi, hist, last, status>>

NoCursor == [live |-> FALSE, chunk |-> 0, mask |-> {}, index |-> 0, capacity |-> 0]

\* Record of a finished call.  ret: the return value (0 for void, booleans
\* as 0/1); err: index_check printed the diagnostic and exited; oob: word
\* positions outside the storage that the call read or wrote; seq: the
\* elements an enumeration visited.
Call(op, arg, ret, err, oob, seq) ==
    [op |-> op, arg |-> arg, ret |-> ret, err |-> err, oob |-> oob, seq |-> seq]

InStorage(n, pos) == pos >= 0 /\ pos < n

\* *chunk for a pointer at word position pos; g is what memory outside the
\* storage holds.
Deref(words, n, pos, g) == IF InStorage(n, pos) THEN words[pos] ELSE g

Outside(n, pos) == IF InStorage(n, pos) THEN {} ELSE {pos}

(* --------------------------- storage core ------------------------------ *)

\* bitset_init without the `if (capacity % 64) nchunks += 1`.
NChunksOf_Floor(cap) == CDiv(cap, WORD)

\* bitset_init: nchunks = capacity / 64, plus one if capacity % 64.
NChunksOf(cap) == CDiv(cap, WORD) + (IF CMod(cap, WORD) # 0 THEN 1 ELSE 0)

\* bitset_reset: memset of all nchunks words to 0.
ZeroWords(n) == [k \in 0 .. n - 1 |-> {}]

\* bitset_new(capacity), allocation succeeding.
Init ==
    /\ capacity \in Capacities
    /\ nchunks = NChunksOf(capacity)
    /\ chunks = ZeroWords(nchunks)
    /\ bsi = NoCursor
    /\ hist = <<>>
    /\ last = Call("new", capacity, 0, FALSE, {}, <<>>)
    /\ status = "running"

\* index_check: exits when index >= capacity.
index_check(cap, index) == index >= cap

\* A cursor holds a raw pointer into the live storage; callers do not mutate
\* the bitset while a cursor is in use, so the mutators are called only
\* before bitset_iter_begin.
NoCursorInUse == ~bsi.live

\* bitset_set with the mask computed in a 32-bit int (the literal 1 without
\* the ull suffix): the shift count wraps at 32.
SetWord32(words, n, index, bitmask) ==
    LET pos == CDiv(index, WORD)
    IN  IF InStorage(n, pos)
        THEN [words EXCEPT ![pos] = words[pos] \cup {b % 32 : b \in bitmask}]
        ELSE words

\* bitset_set with ^= in place of |=: a set bit is toggled off.
SetWord_Toggle(words, n, index, bitmask) ==
    LET pos == CDiv(index, WORD)
    IN  IF InStorage(n, pos)
        THEN [words EXCEPT ![pos] = (words[pos] \ bitmask) \cup (bitmask \ words[pos])]
        ELSE words

\* self->chunks[index / 64] |= bitmask
SetWord(words, n, index, bitmask) ==
    LET pos == CDiv(index, WORD)
    IN  IF InStorage(n, pos)
        THEN [words EXCEPT ![pos] = words[pos] \cup bitmask]
        ELSE words

\* self->chunks[index / 64] &= ~(1ull << (index % 64))
ClearWord(words, n, index, shifted) ==
    LET pos == CDiv(index, WORD)
    IN  IF InStorage(n, pos)
        THEN [words EXCEPT ![pos] = words[pos] \ shifted]
        ELSE words

\* self->chunks[index / 64] & bitmask, converted to bool
GetBit(words, n, index, bitmask, g) ==
    (Deref(words, n, CDiv(index, WORD), g) \cap bitmask) # {}

\* bitset_get(self, index) for 0 <= index < capacity: the shift count is in
\* range and the word is in the storage.
Test(words, n, index) == GetBit(words, n, index, Bit(CMod(index, WORD)), {})

\* bitset_reset with the memset length sizeof(uint64_t), not multiplied by
\* nchunks: only the first word is zeroed.
bitset_reset_FirstWord ==
    /\ status = "running"
    /\ NoCursorInUse
    /\ chunks' = [k \in 0 .. nchunks - 1 |-> IF k = 0 THEN {} ELSE chunks[k]]
    /\ last' = Call("reset", 0, 0, FALSE, {}, <<>>)
    /\ UNCHANGED <<capacity, nchunks, bsi, hist, status>>

bitset_reset ==
    /\ status = "running"
    /\ NoCursorInUse
    /\ chunks' = ZeroWords(nchunks)
    /\ last' = Call("reset", 0, 0, FALSE, {}, <<>>)
    /\ UNCHANGED <<capacity, nchunks, bsi, hist, status>>

bitset_set ==
    /\ status = "running"
    /\ NoCursorInUse
    /\ \E index \in IndexInputs(capacity) :
        IF index_check(capacity, index)
        THEN /\ status' = "exited"
             /\ last' = Call("set", index, 0, TRUE, {}, <<>>)
             /\ UNCHANGED <<capacity, nchunks, chunks, bsi, hist>>
        ELSE \E bitmask \in ShiftMasks(index) :
             /\ chunks' = SetWord(chunks, nchunks, index, bitmask)
             /\ last' = Call("set", index, 0, FALSE,
                             Outside(nchunks, CDiv(index, WORD)), <<>>)
             /\ UNCHANGED <<capacity, nchunks, bsi, hist, status>>

bitset_clear ==
    /\ status = "running"
    /\ NoCursorInUse
    /\ \E index \in IndexInputs(capacity) :
        IF index_check(capacity, index)
        THEN /\ status' = "exited"
             /\ last' = Call("clear", index, 0, TRUE, {}, <<>>)
             /\ UNCHANGED <<capacity, nchunks, chunks, bsi, hist>>
        ELSE \E shifted \in ShiftMasks(index) :
             /\ chunks' = ClearWord(chunks, nchunks, index, shifted)
             /\ last' = Call("clear", index, 0, FALSE,
                             Outside(nchunks, CDiv(index, WORD)), <<>>)
             /\ UNCHANGED <<capacity, nchunks, bsi, hist, status>>

bitset_get ==
    /\ status = "running"
    /\ \E index \in IndexInputs(capacity) :
        IF index_check(capacity, index)
        THEN /\ status' = "exited"
             /\ last' = Call("get", index, 0, TRUE, {}, <<>>)
             /\ UNCHANGED <<capacity, nchunks, chunks, bsi, hist>>
        ELSE \E bitmask \in ShiftMasks(index), g \in GarbageWords :
             /\ last' = Call("get", index,
                             IF GetBit(chunks, nchunks, index, bitmask, g) THEN 1 ELSE 0,
                             FALSE, Outside(nchunks, CDiv(index, WORD)), <<>>)
             /\ UNCHANGED <<capacity, nchunks, chunks, bsi, hist, status>>

(* ------------------------- enumeration engine -------------------------- *)

\* The scans test one bit per loop iteration.  The iterations that stay
\* within one word are taken together here: they test the bit positions
\* after (or from) the mask's in ascending order, stop at the first set one,
\* and stop when the running index reaches the capacity.

Min(S) == CHOOSE x \in S : \A y \in S : x <= y

\* Bit position of a single-bit mask.
Pos(mask) == CHOOSE b \in mask : TRUE

\* bitset_iter_begin: one word before the storage, empty mask, index -1.
IterBegin(cap) ==
    [live |-> TRUE, chunk |-> -1, mask |-> {}, index |-> -1, capacity |-> cap]

\* The skip loop of bitset_iter_next with the capacity test placed before
\* `++chunk`: the returning iteration leaves the word pointer behind.
RECURSIVE IterSkipLoop_StaleChunk(_, _, _, _, _, _, _)
IterSkipLoop_StaleChunk(words, n, g, chunk, index, cap, oob) ==
    LET seen == oob \cup Outside(n, chunk)
    IN  IF Deref(words, n, chunk, g) = {}
        THEN IF index + WORD >= cap
             THEN [done |-> TRUE, chunk |-> chunk, index |-> index + WORD, oob |-> seen]
             ELSE IterSkipLoop_StaleChunk(words, n, g, chunk + 1, index + WORD, cap, seen)
        ELSE [done |-> FALSE, chunk |-> chunk, index |-> index, oob |-> seen]

\* The skip loop of bitset_iter_next, entered with the cursor at word
\* position chunk and running index `index`:
\*   while (!*chunk) { ++chunk; index += 64; if (index >= capacity) return -1; }
\* done: the loop returned -1 from inside.
RECURSIVE IterSkipLoop(_, _, _, _, _, _, _)
IterSkipLoop(words, n, g, chunk, index, cap, oob) ==
    LET seen == oob \cup Outside(n, chunk)
    IN  IF Deref(words, n, chunk, g) = {}
        THEN IF index + WORD >= cap
             THEN [done |-> TRUE, chunk |-> chunk + 1, index |-> index + WORD, oob |-> seen]
             ELSE IterSkipLoop(words, n, g, chunk + 1, index + WORD, cap, seen)
        ELSE [done |-> FALSE, chunk |-> chunk, index |-> index, oob |-> seen]

\* The outer loop of bitset_iter_next on cursor b:
\*   while (index < capacity) {
\*     mask <<= 1; index += 1;
\*     if (mask == 0) { mask = 1; ++chunk; <skip loop> }
\*     if (mask & *chunk) return index;
\*   }
\*   return -1;
\* Yields the return value, the cursor as the call leaves it, and the
\* positions outside the storage that were read.  With the mask at bit m the
\* iterations within the word test bits m+1 .. 63; bit j is tested when the
\* index before its increment, index + (j - 1 - m), is below the capacity.
RECURSIVE IterNextLoop(_, _, _, _, _)
IterNextLoop(words, n, g, b, oob) ==
    IF ~(b.index < b.capacity)
    THEN [ret |-> -1, bsi |-> b, oob |-> oob]
    ELSE
      LET m == IF b.mask = {} THEN WORD - 1 ELSE Pos(b.mask)
          jmax == m + (b.capacity - b.index)
          hits == {j \in Deref(words, n, b.chunk, g) : j > m /\ j <= jmax}
          seen == IF m < WORD - 1 THEN oob \cup Outside(n, b.chunk) ELSE oob
      IN  IF Shl1(b.mask) # {} /\ hits # {}
          THEN [ret |-> b.index + (Min(hits) - m),
                bsi |-> [b EXCEPT !.mask = Bit(Min(hits)),
                                  !.index = b.index + (Min(hits) - m)],
                oob |-> seen]
          ELSE IF Shl1(b.mask) # {} /\ jmax < WORD
          THEN \* the index reached the capacity inside the word
               [ret |-> -1,
                bsi |-> [b EXCEPT !.mask = Bit(jmax), !.index = b.capacity],
                oob |-> seen]
          ELSE \* the mask was shifted off the word: begin a new 64-bit chunk
            LET index1 == IF b.mask = {} THEN b.index + 1 ELSE b.index + (WORD - m)
                sk == IterSkipLoop(words, n, g, b.chunk + 1, index1, b.capacity, seen)
                b2 == [b EXCEPT !.mask = Bit(0), !.chunk = sk.chunk, !.index = sk.index]
            IN  IF sk.done
                THEN [ret |-> -1, bsi |-> b2, oob |-> sk.oob]
                ELSE IF (Bit(0) \cap Deref(words, n, sk.chunk, g)) # {}
                     THEN [ret |-> sk.index, bsi |-> b2, oob |-> sk.oob]
                     ELSE IterNextLoop(words, n, g, b2, sk.oob)

\* bitset_iter_next that rewinds an exhausted cursor to its begin state.
IterNext_Rewind(words, n, g, b) ==
    LET r == IterNextLoop(words, n, g, b, {})
    IN  IF r.ret = -1 THEN [r EXCEPT !.bsi = IterBegin(b.capacity)] ELSE r

\* bitset_iter_next(bsi)
IterNext(words, n, g, b) == IterNextLoop(words, n, g, b, {})

\* The skip loop of bitset_next_set_bit without its `index += 64`.
RECURSIVE ScanSkipLoop_NoAdvance(_, _, _, _, _, _, _)
ScanSkipLoop_NoAdvance(words, n, g, chunk, index, cap, oob) ==
    LET seen == oob \cup Outside(n, chunk)
    IN  IF Deref(words, n, chunk, g) = {}
        THEN IF WORD * (chunk + 1) >= cap
             THEN [done |-> TRUE, chunk |-> chunk + 1, index |-> index, oob |-> seen]
             ELSE ScanSkipLoop_NoAdvance(words, n, g, chunk + 1, index, cap, seen)
        ELSE [done |-> FALSE, chunk |-> chunk, index |-> index, oob |-> seen]

\* The skip loop of bitset_next_set_bit (same text as the cursor's).
RECURSIVE ScanSkipLoop(_, _, _, _, _, _, _)
ScanSkipLoop(words, n, g, chunk, index, cap, oob) ==
    LET seen == oob \cup Outside(n, chunk)
    IN  IF Deref(words, n, chunk, g) = {}
        THEN IF index + WORD >= cap
             THEN [done |-> TRUE, chunk |-> chunk + 1, index |-> index + WORD, oob |-> seen]
             ELSE ScanSkipLoop(words, n, g, chunk + 1, index + WORD, cap, seen)
        ELSE [done |-> FALSE, chunk |-> chunk, index |-> index, oob |-> seen]

\* bitset_next_set_bit written as a do-while: the current bit is tested
\* before the running index is compared with the capacity.
RECURSIVE ScanLoop_TestFirst(_, _, _, _, _, _, _, _)
ScanLoop_TestFirst(words, n, cap, g, chunk, mask, index, oob) ==
    LET m == Pos(mask)
        jlim == m + (cap - index)
        hits == {j \in Deref(words, n, chunk, g) : j >= m /\ (j = m \/ j < jlim)}
        seen == oob \cup Outside(n, chunk)
    IN  IF hits # {}
        THEN [ret |-> index + (Min(hits) - m), oob |-> seen]
        ELSE IF jlim < WORD
        THEN [ret |-> -1, oob |-> seen]
        ELSE
          LET sk == ScanSkipLoop(words, n, g, chunk + 1, index + (WORD - m), cap, seen)
          IN  IF sk.done
              THEN [ret |-> -1, oob |-> sk.oob]
              ELSE ScanLoop_TestFirst(words, n, cap, g, sk.chunk, Bit(0), sk.index, sk.oob)

\* The outer loop of bitset_next_set_bit with locals chunk, mask, index:
\*   while (index < capacity) {
\*     if (mask & *chunk) return index;
\*     mask <<= 1; index += 1;
\*     if (mask == 0) { mask = 1; ++chunk; <skip loop> }
\*   }
\*   return -1;
\* With the mask at bit m the iterations within the word test bits m .. 63;
\* bit j is tested when its index, index + (j - m), is below the capacity.
RECURSIVE ScanLoop(_, _, _, _, _, _, _, _)
ScanLoop(words, n, cap, g, chunk, mask, index, oob) ==
    IF ~(index < cap)
    THEN [ret |-> -1, oob |-> oob]
    ELSE
      LET m == Pos(mask)
          jlim == m + (cap - index)
          hits == {j \in Deref(words, n, chunk, g) : j >= m /\ j < jlim}
          seen == oob \cup Outside(n, chunk)
      IN  IF hits # {}
          THEN [ret |-> index + (Min(hits) - m), oob |-> seen]
          ELSE IF jlim < WORD
          THEN \* the index reached the capacity inside the word
               [ret |-> -1, oob |-> seen]
          ELSE \* the mask was shifted off the word: begin a new chunk
            LET sk == ScanSkipLoop(words, n, g, chunk + 1, index + (WORD - m), cap, seen)
            IN  IF sk.done
                THEN [ret |-> -1, oob |-> sk.oob]
                ELSE ScanLoop(words, n, cap, g, sk.chunk, Bit(0), sk.index, sk.oob)

\* bitset_next_set_bit(bs, index) for index >= 0.
NextSetBit(words, n, cap, g, index) ==
    ScanLoop(words, n, cap, g, Shr6(index), Bit(And3F(index)), index, {})

\* The loop of bitset_enumerate: the elements bitset_iter_next returns
\* before its first negative result, on cursor b.
RECURSIVE EnumerateLoop(_, _, _, _, _, _)
EnumerateLoop(words, n, g, b, seq, oob) ==
    LET r == IterNext(words, n, g, b)
    IN  IF r.ret >= 0
        THEN EnumerateLoop(words, n, g, r.bsi, Append(seq, r.ret), oob \cup r.oob)
        ELSE [seq |-> seq, oob |-> oob \cup r.oob]

\* The loop of bitset_enumerate2: elem = next_set_bit(self, 0), then
\* next_set_bit(self, elem + 1) while elem >= 0.
RECURSIVE Enumerate2Loop(_, _, _, _, _, _, _)
Enumerate2Loop(words, n, cap, g, start, seq, oob) ==
    LET r == NextSetBit(words, n, cap, g, start)
    IN  IF r.ret >= 0
        THEN Enumerate2Loop(words, n, cap, g, r.ret + 1, Append(seq, r.ret), oob \cup r.oob)
        ELSE [seq |-> seq, oob |-> oob \cup r.oob]

\* total += elem over the visited elements.
RECURSIVE Total(_)
Total(seq) == IF seq = <<>> THEN 0 ELSE Head(seq) + Total(Tail(seq))

bitset_iter_begin ==
    /\ status = "running"
    /\ bsi' = IterBegin(capacity)
    /\ hist' = <<>>
    /\ last' = Call("iter_begin", 0, 0, FALSE, {}, <<>>)
    /\ UNCHANGED <<capacity, nchunks, chunks, status>>

\* bitset_iter_next that clears the bit it returns (a consuming iterator).
bitset_iter_next_Destructive ==
    /\ status = "running"
    /\ bsi.live
    /\ Len(hist) < MaxIterCalls
    /\ \E g \in GarbageWords :
        LET r == IterNext(chunks, nchunks, g, bsi)
        IN  /\ bsi' = r.bsi
            /\ hist' = Append(hist, r.ret)
            /\ last' = Call("iter_next", 0, r.ret, FALSE, r.oob, <<>>)
            /\ chunks' = IF r.ret >= 0
                          THEN ClearWord(chunks, nchunks, r.ret, Bit(CMod(r.ret, WORD)))
                          ELSE chunks
    /\ UNCHANGED <<capacity, nchunks, status>>

bitset_iter_next ==
    /\ status = "running"
    /\ bsi.live
    /\ Len(hist) < MaxIterCalls
    /\ \E g \in GarbageWords :
        LET r == IterNext(chunks, nchunks, g, bsi)
        IN  /\ bsi' = r.bsi
            /\ hist' = Append(hist, r.ret)
            /\ last' = Call("iter_next", 0, r.ret, FALSE, r.oob, <<>>)
    /\ UNCHANGED <<capacity, nchunks, chunks, status>>

bitset_next_set_bit ==
    /\ status = "running"
    /\ \E index \in StartInputs(capacity), g \in GarbageWords :
        LET r == NextSetBit(chunks, nchunks, capacity, g, index)
        IN  last' = Call("next_set_bit", index, r.ret, FALSE, r.oob, <<>>)
    /\ UNCHANGED <<capacity, nchunks, chunks, bsi, hist, status>>

bitset_enumerate ==
    /\ status = "running"
    /\ \E g \in GarbageWords :
        LET r == EnumerateLoop(chunks, nchunks, g, IterBegin(capacity), <<>>, {})
        IN  last' = Call("enumerate", 0, Total(r.seq), FALSE, r.oob, r.seq)
    /\ UNCHANGED <<capacity, nchunks, chunks, bsi, hist, status>>

bitset_enumerate2 ==
    /\ status = "running"
    /\ \E g \in GarbageWords :
        LET r == Enumerate2Loop(chunks, nchunks, capacity, g, 0, <<>>, {})
        IN  last' = Call("enumerate2", 0, Total(r.seq), FALSE, r.oob, r.seq)
    /\ UNCHANGED <<capacity, nchunks, chunks, bsi, hist, status>>

Next ==
    \/ bitset_reset
    \/ bitset_set
    \/ bitset_clear
    \/ bitset_get
    \/ bitset_iter_begin
    \/ bitset_iter_next
    \/ bitset_next_set_bit
    \/ bitset_enumerate
    \/ bitset_enumerate2

Spec == Init /\ [][Next]_vars

(* --------------- the skip loop on bitsets near INT_MAX bits ------------ *)

\* The first bitset_iter_next on a freshly constructed bitset skips one
\* all-zero word per iteration of its inner loop.  For capacities close to
\* INT_MAX the loop is followed one iteration at a time, from the point it
\* has reached when only the last TopSpan words are left; only those words
\* of the storage are represented.

\* The capacities from TopSpan words below INT_MAX up to INT_MAX.
LargeCapacities == {INT_MAX - d : d \in 0 .. TopSpan * WORD}

\* The last TopSpan words of the zeroed storage of n words.
TopWords(n) == [k \in (n - TopSpan) .. (n - 1) |-> {}]

\* bitset_new(capacity), bitset_iter_begin, and bitset_iter_next up to the
\* head of its skip loop at word k: mask 1, index 64 * k.
InitLarge ==
    /\ capacity \in LargeCapacities
    /\ nchunks = NChunksOf(capacity)
    /\ chunks = TopWords(nchunks)
    /\ \E k \in (nchunks - TopSpan) .. (nchunks - 1) :
          bsi = [live |-> TRUE, chunk |-> k, mask |-> Bit(0),
                 index |-> WORD * k, capacity |-> capacity]
    /\ hist = <<>>
    /\ last = Call("iter_begin", 0, 0, FALSE, {}, <<>>)
    /\ status = "skip_loop"

\* One iteration of the skip loop of bitset_iter_next:
\*   while (!*chunk) { ++chunk; index += 64; if (index >= capacity) return -1; }
\* `index += 64` on an int above INT_MAX - 64 overflows, which C leaves
\* undefined; the step records that and nothing is said of what follows.
IterSkipStep ==
    /\ status = "skip_loop"
    /\ chunks[bsi.chunk] = {}
    /\ IF bsi.index > INT_MAX - WORD
       THEN /\ status' = "undefined"
            /\ bsi' = [bsi EXCEPT !.chunk = bsi.chunk + 1]
            /\ UNCHANGED <<hist, last>>
       ELSE /\ bsi' = [bsi EXCEPT !.chunk = bsi.chunk + 1, !.index = bsi.index + WORD]
            /\ IF bsi.index + WORD >= bsi.capacity
               THEN /\ status' = "running"
                    /\ hist' = Append(hist, -1)
                    /\ last' = Call("iter_next", 0, -1, FALSE, {}, <<>>)
               ELSE UNCHANGED <<status, hist, last>>
    /\ UNCHANGED <<capacity, nchunks, chunks>>

NextLarge == IterSkipStep

SpecLarge == InitLarge /\ [][NextLarge]_vars

(* ------------------------------ claims --------------------------------- *)

\* The indices i in [0, cap) for which bitset_get(bs, i) is true.
SetBits(words, n, cap) == {i \in 0 .. cap - 1 : Test(words, n, i)}

\* What a plain bit-by-bit scan from start returns.
LeastFrom(S, start) ==
    IF {i \in S : i >= start} = {} THEN -1 ELSE Min({i \in S : i >= start})

\* The elements of a set of integers in ascending order.
RECURSIVE Ascending(_)
Ascending(S) == IF S = {} THEN <<>> ELSE <<Min(S)>> \o Ascending(S \ {Min(S)})

\* The result of the call of bitset_iter_next before the last recorded one
\* (-1 before the first call).
PrevResult == IF Len(hist) <= 1 THEN -1 ELSE hist[Len(hist) - 1]

\* No call before the last recorded one returned -1.
FirstRun == \A k \in 1 .. Len(hist) - 1 : hist[k] >= 0

\* C1: bitset_next_set_bit(bs, start) with 0 <= start <= capacity returns the
\* smallest set index i with start <= i < capacity, or -1 when there is none.
C1_NextSetBitIsLeast ==
    (last.op = "next_set_bit" /\ last.arg >= 0 /\ last.arg <= capacity)
        => last.ret = LeastFrom(SetBits(chunks, nchunks, capacity), last.arg)

\* A scan that started in the first word, skipped an all-zero word and found
\* its bit in the third.
C1_Witness ==
    /\ last.op = "next_set_bit"
    /\ last.arg < WORD
    /\ last.ret >= 2 * WORD
    /\ chunks[1] = {}

\* C2: either enumeration form yields exactly the set indices of [0,
\* capacity), each once, in strictly ascending order.
C2_EnumeratesExactlySetBits ==
    (last.op \in {"enumerate", "enumerate2"})
        => last.seq = Ascending(SetBits(chunks, nchunks, capacity))

\* C3: up to the first -1, each call of bitset_iter_next returns what
\* bitset_next_set_bit(bs, p + 1) returns, p being the previous result.
C3_CursorEqualsStatelessScan ==
    (last.op = "iter_next" /\ FirstRun)
        => \A g \in GarbageWords :
              last.ret = NextSetBit(chunks, nchunks, capacity, g, PrevResult + 1).ret

\* C4: every value bitset_iter_next or bitset_next_set_bit returns is -1 or
\* a set index below the capacity.
C4_ResultsInRange ==
    (last.op \in {"iter_next", "next_set_bit"})
        => \/ last.ret = -1
           \/ last.ret \in SetBits(chunks, nchunks, capacity)

\* C5: bitset_set, bitset_clear and bitset_get with index < 0 or index >=
\* capacity end in the out-of-range exit without touching any word.
C5_OutOfRangeIsRejected ==
    (last.op \in {"set", "clear", "get"} /\ (last.arg < 0 \/ last.arg >= capacity))
        => (last.err /\ status = "exited" /\ last.oob = {})

\* C6: every bit position i with capacity <= i < 64 * nchunks of the
\* allocated words is 0.
C6_SlackBitsZero ==
    \A k \in 0 .. nchunks - 1 : \A b \in chunks[k] : WORD * k + b < capacity

\* C7: bitset_set(i) and bitset_clear(i) on a valid index make bit i true,
\* respectively false, and leave every other bit, the capacity and nchunks
\* as they were.
C7_SetClearFrame ==
    [][(last'.op \in {"set", "clear"} /\ last'.arg >= 0 /\ last'.arg < capacity)
        => /\ capacity' = capacity
           /\ nchunks' = nchunks
           /\ \A j \in 0 .. capacity - 1 :
                Test(chunks', nchunks', j) =
                    IF j = last'.arg THEN last'.op = "set" ELSE Test(chunks, nchunks, j)]_vars

\* Bit 63 was cleared and bit 64, across the word boundary, is still set.
C7_Witness ==
    /\ last.op = "clear"
    /\ last.arg = WORD - 1
    /\ ~last.err
    /\ capacity > WORD
    /\ Test(chunks, nchunks, WORD)

\* C8: on a bitset with no bit set the first bitset_iter_next of a fresh
\* cursor and bitset_next_set_bit(bs, 0) return -1 and access no word
\* outside the storage.
C8_EmptyEnumeration ==
    (/\ SetBits(chunks, nchunks, capacity) = {}
     /\ \/ last.op = "iter_next" /\ Len(hist) = 1
        \/ last.op = "next_set_bit" /\ last.arg = 0)
        => (last.ret = -1 /\ last.oob = {})

\* C9: once bitset_iter_next has returned -1 on a cursor, every later call
\* on that cursor returns -1.
C9_ExhaustionSticky ==
    \A k \in 1 .. Len(hist) : \A l \in k .. Len(hist) : hist[k] = -1 => hist[l] = -1

\* The cursor returned an index, then -1 from inside the skip loop (the
\* index overshot the capacity), then -1 again.
C9_Witness ==
    /\ Len(hist) >= 3
    /\ hist[Len(hist) - 2] >= 0
    /\ hist[Len(hist) - 1] = -1
    /\ hist[Len(hist)] = -1
    /\ bsi.index > bsi.capacity

\* C10: bitset_next_set_bit(bs, start) with start >= capacity returns -1 and
\* reads no word outside the storage.
C10_StartAtOrPastCapacity ==
    (last.op = "next_set_bit" /\ last.arg >= capacity)
        => (last.ret = -1 /\ last.oob = {})

\* A scan started past the capacity of a bitset that has a bit set.
C10_Witness ==
    /\ last.op = "next_set_bit"
    /\ last.arg > capacity
    /\ SetBits(chunks, nchunks, capacity) # {}

\* C11: after bitset_reset the capacity and nchunks are as before and every
\* bit of [0, capacity) is false, which is the state bitset_new(capacity)
\* produces.
C11_ResetIsFresh ==
    /\ SetBits(chunks, nchunks, capacity) = {}
    /\ [][last'.op = "reset"
            => /\ capacity' = capacity
               /\ nchunks' = nchunks
               /\ SetBits(chunks', nchunks', capacity') = {}
               /\ chunks' = ZeroWords(NChunksOf(capacity'))]_vars

\* A reset bitset of more than one word.
C11_Witness ==
    /\ last.op = "reset"
    /\ nchunks >= 2
    /\ status = "running"

\* C12: a second bitset_set(i), respectively bitset_clear(i), on a valid
\* index changes nothing in the state the first one left.
C12_SetClearIdempotent ==
    (last.op \in {"set", "clear"} /\ last.arg >= 0 /\ last.arg < capacity)
        => \A bitmask \in ShiftMasks(last.arg) :
              IF last.op = "set"
              THEN SetWord(chunks, nchunks, last.arg, bitmask) = chunks
              ELSE ClearWord(chunks, nchunks, last.arg, bitmask) = chunks

\* Bit 64 was set on a bitset that holds another set bit.
C12_Witness ==
    /\ last.op = "set"
    /\ last.arg = WORD
    /\ capacity > WORD
    /\ Cardinality(SetBits(chunks, nchunks, capacity)) >= 2

\* C13: bitset_next_set_bit, bitset_iter_begin and bitset_iter_next (and the
\* enumerations built on them) leave the words, the capacity and nchunks
\* unchanged, and the value bitset_next_set_bit(bs, k) returns depends only
\* on the words and k, not on the cursor or on memory outside the storage.
C13_ScansReadOnly ==
    [][last'.op \in {"next_set_bit", "iter_begin", "iter_next", "enumerate", "enumerate2"}
        => /\ chunks' = chunks
           /\ capacity' = capacity
           /\ nchunks' = nchunks
           /\ last'.op = "next_set_bit"
                => \A g \in GarbageWords :
                      NextSetBit(chunks, nchunks, capacity, g, last'.arg).ret = last'.ret]_vars

\* A stateless scan that found a bit while a cursor was part-way through
\* the same bitset.
C13_Witness ==
    /\ last.op = "next_set_bit"
    /\ last.ret >= 0
    /\ bsi.live
    /\ Len(hist) >= 1

\* C14: no call of bitset_iter_next or bitset_next_set_bit dereferences a
\* word position outside [0, nchunks).
C14_ScansStayInStorage ==
    (last.op \in {"iter_next", "next_set_bit"}) => last.oob = {}

\* C15: the loops of bitset_enumerate and bitset_enumerate2 end after
\* exactly (number of set bits) + 1 scan calls: one per element visited and
\* the last one, which returns -1.
C15_EnumerationCallCount ==
    (last.op \in {"enumerate", "enumerate2"})
        => Len(last.seq) + 1 = Cardinality(SetBits(chunks, nchunks, capacity)) + 1

\* ceil(cap / 64)
CeilWords(cap) == (cap + (WORD - 1)) \div WORD

\* C16: nchunks is ceil(capacity / 64) after bitset_new, no operation
\* changes capacity or nchunks, and a cursor's capacity is the bitset's.
C16_CapacityFixed ==
    /\ nchunks = CeilWords(capacity)
    /\ [][/\ capacity' = capacity
          /\ nchunks' = nchunks
          /\ bsi'.live => bsi'.capacity = capacity']_vars

\* A cursor that has been advanced over a bitset of capacity 65 (two words).
C16_Witness ==
    /\ capacity = WORD + 1
    /\ nchunks = 2
    /\ bsi.live
    /\ Len(hist) >= 1

\* C18: bitset_iter_begin leaves index -1, mask 0 and the word pointer one
\* before the first word; every bitset_iter_next leaves mask = 1 << (index
\* mod 64) and the word pointer at word index div 64, and never lowers the
\* index.
C18_CursorFieldsInStep ==
    [][bsi'.live
        => IF last'.op = "iter_begin"
           THEN bsi'.index = -1 /\ bsi'.mask = {} /\ bsi'.chunk = -1
           ELSE IF last'.op = "iter_next"
           THEN /\ bsi'.mask = Bit(bsi'.index % WORD)
                /\ bsi'.chunk = bsi'.index \div WORD
                /\ bsi'.index >= bsi.index
           ELSE bsi' = bsi]_vars

\* A cursor that returned an index and then -1 from inside the skip loop,
\* its index past the capacity.
C18_Witness ==
    /\ bsi.live
    /\ Len(hist) >= 2
    /\ hist[Len(hist) - 1] >= 0
    /\ hist[Len(hist)] = -1
    /\ bsi.index > bsi.capacity

\* C17: the running index of the scans, advanced by `index += 64` in the
\* skip loop, never exceeds INT_MAX for any capacity in [0, INT_MAX].
C17_NoSignedOverflow == status # "undefined"

====
